---- MODULE Spec2Model ----
(***************************************************************************)
(* Foucault pendulum arcade game (src/main.go): the Game aggregate and its *)
(* per-tick handler Game.Update, with Game.initialize and setNextMode.     *)
(*                                                                         *)
(* Numbers.  The program computes in float64; the model computes in fixed  *)
(* point with integers:                                                    *)
(*   - screen and field positions in 1/Milli pixel;                        *)
(*   - pendulumX, pendulumVx in 1/(Milli*Fine) pixel;                      *)
(*   - pendulumRotation in micro-radians (RotStep is math.Pi/800 and TwoPi *)
(*     is math.Pi*2, both rounded to the micro-radian);                    *)
(*   - sines and cosines of the rotation from a table of the 1600 steps of *)
(*     pi/800, scaled by TrigScale.                                        *)
(* The rounding error float64 leaves on an entity's screen x (about 1e-12  *)
(* after a crossing of the screen) is kept as its sign, dev, beside the    *)
(* value; only the comparisons of the filter with their bounds read it.    *)
(* A PolarCoordinates value (r, theta) is held as the point                *)
(* (r*cos(theta), r*sin(theta)) of the unscaled field plane, which is what *)
(* fromScreen computes before taking sqrt/atan2 and what toScreen and the  *)
(* collision test recompute from (r, theta).                               *)
(*                                                                         *)
(* Inputs.  touchContext.Update() samples the pointer: the two edge        *)
(* signals are inputs of each Update.  The values drawn from g.random are  *)
(* inputs too (the stream is math/rand's, outside the repository): random  *)
(* records the seed and the number of values drawn so far.                 *)
(***************************************************************************)
EXTENDS Integers, Sequences, FiniteSets, TLC

VARIABLES gameRandSeed, fixedRandomSeed, justTouched, justReleased, random, mode, ticksFromModeStart, score, hold, pendulumX, pendulumVx, pendulumRotation, coins, coinHitEffects, enemies, lastPendulumTicks, rankingCalls, effectUpdates, updatesInMode, pointerDown, sampled

vars == <<gameRandSeed, fixedRandomSeed, justTouched, justReleased, random, mode, ticksFromModeStart, score, hold, pendulumX, pendulumVx, pendulumRotation, coins, coinHitEffects, enemies, lastPendulumTicks, rankingCalls, effectUpdates, updatesInMode, pointerDown, sampled>>

(* ------------------------------ constants ------------------------------ *)

screenWidth == 640
screenHeight == 480
circleX == screenWidth \div 2
circleY == screenHeight \div 2
\* circleVerticalScale = 0.7 = verticalScaleNum / verticalScaleDen
verticalScaleNum == 7
verticalScaleDen == 10
pendulumLength == 955
pendulumAmplitude == 220
pendulumR == 10
\* gravity = 9.8 / 60 = gravityNum / gravityDen
gravityNum == 49
gravityDen == 300

GameModeTitle == "Title"
GameModePlaying == "Playing"
GameModeGameOver == "GameOver"

\* fixed-point resolutions standing for float64
Milli == 1000
Fine == 100
TrigScale == 8192

\* math.Pi / 800 and math.Pi * 2, in micro-radians
RotStep == 3927
TwoPi == 6283185
\* the 800 of math.Pi / 800: steps of the rotation in half a turn
HalfTurnSteps == 800

\* the pendulum's forced reset period, in ticks
resetPeriod == 480
\* ticks a game-over screen ignores presses
gameOverDelay == 60
\* age at which a CoinHitEffect is filtered out
effectLifetime == 60
\* the spawn point's distance outside the screen edge, the band of spawn heights
spawnMargin == 50
spawnBandBase == 110
spawnBandCut == 150
spawnCentreGap == 30
\* the margin around the screen within which an entity is kept
pruneMargin == 100
\* stars drawn by initialize, three draws each
starCount == 500
\* coins of a spawn group, the first largeCoins of radius 10 and the rest 7
groupCoins == 6
largeCoins == 3
coinDelayStep == 20
largeCoinR == 10
smallCoinR == 7
enemyR == 10

Abs(a) == IF a < 0 THEN -a ELSE a

\* a / b rounded to the nearest integer (b > 0)
RDiv(a, b) == (a + b \div 2) \div b

\* round(TrigScale * sin(i * pi / 800)) for i = 0..400
SinTable ==
    << 0, 32, 64, 97, 129, 161, 193, 225, 257, 289, 322, 354,
       386, 418, 450, 482, 514, 546, 579, 611, 643, 675, 707, 739,
       771, 803, 835, 867, 899, 931, 963, 995, 1027, 1059, 1091, 1122,
       1154, 1186, 1218, 1250, 1282, 1313, 1345, 1377, 1408, 1440, 1472, 1503,
       1535, 1567, 1598, 1630, 1661, 1693, 1724, 1756, 1787, 1818, 1850, 1881,
       1912, 1944, 1975, 2006, 2037, 2068, 2100, 2131, 2162, 2193, 2224, 2255,
       2285, 2316, 2347, 2378, 2409, 2440, 2470, 2501, 2531, 2562, 2593, 2623,
       2654, 2684, 2714, 2745, 2775, 2805, 2835, 2866, 2896, 2926, 2956, 2986,
       3016, 3046, 3075, 3105, 3135, 3165, 3194, 3224, 3253, 3283, 3312, 3342,
       3371, 3400, 3430, 3459, 3488, 3517, 3546, 3575, 3604, 3633, 3662, 3690,
       3719, 3748, 3776, 3805, 3833, 3862, 3890, 3918, 3947, 3975, 4003, 4031,
       4059, 4087, 4115, 4142, 4170, 4198, 4225, 4253, 4280, 4308, 4335, 4362,
       4389, 4417, 4444, 4471, 4498, 4524, 4551, 4578, 4605, 4631, 4658, 4684,
       4710, 4737, 4763, 4789, 4815, 4841, 4867, 4893, 4919, 4944, 4970, 4995,
       5021, 5046, 5072, 5097, 5122, 5147, 5172, 5197, 5222, 5247, 5271, 5296,
       5320, 5345, 5369, 5393, 5417, 5442, 5466, 5489, 5513, 5537, 5561, 5584,
       5608, 5631, 5655, 5678, 5701, 5724, 5747, 5770, 5793, 5815, 5838, 5860,
       5883, 5905, 5927, 5950, 5972, 5994, 6016, 6037, 6059, 6081, 6102, 6124,
       6145, 6166, 6187, 6208, 6229, 6250, 6271, 6291, 6312, 6333, 6353, 6373,
       6393, 6413, 6433, 6453, 6473, 6493, 6512, 6532, 6551, 6570, 6589, 6609,
       6627, 6646, 6665, 6684, 6702, 6721, 6739, 6757, 6775, 6793, 6811, 6829,
       6847, 6865, 6882, 6899, 6917, 6934, 6951, 6968, 6985, 7002, 7018, 7035,
       7051, 7068, 7084, 7100, 7116, 7132, 7147, 7163, 7179, 7194, 7209, 7225,
       7240, 7255, 7270, 7284, 7299, 7314, 7328, 7342, 7357, 7371, 7385, 7399,
       7412, 7426, 7440, 7453, 7466, 7479, 7492, 7505, 7518, 7531, 7544, 7556,
       7568, 7581, 7593, 7605, 7617, 7629, 7640, 7652, 7663, 7674, 7686, 7697,
       7708, 7719, 7729, 7740, 7750, 7761, 7771, 7781, 7791, 7801, 7811, 7820,
       7830, 7839, 7849, 7858, 7867, 7876, 7884, 7893, 7902, 7910, 7918, 7927,
       7935, 7943, 7950, 7958, 7966, 7973, 7980, 7988, 7995, 8002, 8008, 8015,
       8022, 8028, 8035, 8041, 8047, 8053, 8059, 8064, 8070, 8075, 8081, 8086,
       8091, 8096, 8101, 8106, 8110, 8115, 8119, 8123, 8127, 8131, 8135, 8139,
       8143, 8146, 8149, 8153, 8156, 8159, 8161, 8164, 8167, 8169, 8172, 8174,
       8176, 8178, 8180, 8181, 8183, 8184, 8186, 8187, 8188, 8189, 8190, 8190,
       8191, 8191, 8192, 8192, 8192 >>
\* TrigScale * sin(k * pi/800), TrigScale * cos(k * pi/800), k in 0..1599
SinStep(k) ==
    LET q == k % HalfTurnSteps
        s == IF 2 * q <= HalfTurnSteps THEN SinTable[q + 1] ELSE SinTable[HalfTurnSteps - q + 1]
    IN  IF k < HalfTurnSteps THEN s ELSE -s

CosStep(k) == SinStep((k + HalfTurnSteps \div 2) % (2 * HalfTurnSteps))

\* the step of pi/800 nearest to a rotation
RotIndex(rot) == RDiv(rot, RotStep) % (2 * HalfTurnSteps)

(* -------------------------- PolarCoordinates --------------------------- *)

\* x = r*cos(theta) + circleX, y = r*sin(theta)*circleVerticalScale + circleY
toScreen(p) ==
    [x |-> p.x + circleX * Milli,
     y |-> RDiv(p.y * verticalScaleNum, verticalScaleDen) + circleY * Milli]

\* x -= circleX; y -= circleY; y /= circleVerticalScale
fromScreen(x, y) ==
    [x |-> x - circleX * Milli,
     y |-> RDiv((y - circleY * Milli) * verticalScaleDen, verticalScaleNum)]

(* -------------------------------- Mover -------------------------------- *)

\* move starting one tick early
moveFromDelay(m, ticks, pos) ==
    IF ticks - m.delay >= 0
    THEN LET s == toScreen(pos) IN fromScreen(s.x + m.delta * Milli, s.y)
    ELSE pos

\* if int(ticks)-m.delay > 0 { x, y := pos.toScreen(); pos.fromScreen(x+m.delta, y) }
move(m, ticks, pos) ==
    IF ticks - m.delay > 0
    THEN LET s == toScreen(pos) IN fromScreen(s.x + m.delta * Milli, s.y)
    ELSE pos

(* ------------------------------ pendulum ------------------------------- *)

\* if IsJustTouched() { hold = true }; if IsJustReleased() { hold = false }
NextHold(h, jt, jr) == IF jr THEN FALSE ELSE IF jt THEN TRUE ELSE h

\* Rotate wrapping one step late
RotateLateWrap(rot, h) ==
    IF h
    THEN IF rot > TwoPi THEN rot + RotStep - TwoPi ELSE rot + RotStep
    ELSE rot

\* if hold { rotation += pi/800; if rotation > 2*pi { rotation -= 2*pi } }
Rotate(rot, h) ==
    IF h
    THEN IF rot + RotStep > TwoPi THEN rot + RotStep - TwoPi ELSE rot + RotStep
    ELSE rot

\* vx += -gravity / pendulumLength * x; x += vx
SwingVx(x, vx) == vx + RDiv(-gravityNum * x, gravityDen * pendulumLength)

SwingX(x, vx) == x + SwingVx(x, vx)

\* ResetDue with a period one tick longer
ResetDueLate(t, last) == (t - last) % (resetPeriod + 1) = 0

\* (ticksFromModeStart - lastPendulumTicks) % 480 == 0, on uint64:
\* 2^64 % 480 = 256 is what a wrapped difference adds
ResetDue(t, last) ==
    IF t >= last THEN (t - last) % resetPeriod = 0 ELSE (t - last + 256) % resetPeriod = 0

\* the bob in the field plane: (pendulumX*cos(rotation), pendulumX*sin(rotation))
Bob(px, rot) ==
    LET k == RotIndex(rot)
        m == RDiv(px, Fine)
    IN  [x |-> RDiv(m * CosStep(k), TrigScale), y |-> RDiv(m * SinStep(k), TrigScale)]

\* squared distance of the bob b and an entity < (pendulumR + r)^2; the two
\* comparisons of the coordinates are implied by the third and keep the
\* squares small
Hit(b, pos, r) ==
    LET dx == b.x - pos.x
        dy == b.y - pos.y
        lim == (pendulumR + r) * Milli
    IN  /\ Abs(dx) < lim
        /\ Abs(dy) < lim
        /\ dx * dx + dy * dy < lim * lim

(* ------------------------------- spawner -------------------------------- *)

enemyAppearanceRate(t) ==
    IF t < 1800 THEN 180
    ELSE IF t < 2400 THEN 120
    ELSE IF t < 3000 THEN 100
    ELSE IF t < 3600 THEN 60
    ELSE 40

\* A draw d is what one Update reads from g.random: d.n and d.side are the
\* values of the two Int() calls, d.fs the values of the Float64() calls of
\* the redraw loop, in thousandths.

\* g.random.Int() % enemyAppearanceRate == 0
Spawns(t, d) == d.n % enemyAppearanceRate(t) = 0

\* lo.If(g.random.Int()%2 == 0, -50.0).Else(screenWidth + 50.0)
SpawnX(d) ==
    IF d.side % 2 = 0 THEN -spawnMargin * Milli ELSE (screenWidth + spawnMargin) * Milli

\* lo.If(x < 0, 1.0).Else(-1.0)
MoverDelta(x) == IF x < 0 THEN 1 ELSE -1

\* y = (screenHeight-150)*g.random.Float64() + 110
SampleY(f) == (screenHeight - spawnBandCut) * f + spawnBandBase * Milli

\* Accepted with a band of 29 pixels
AcceptedNearCentre(f) == Abs(SampleY(f) - circleY * Milli) > (spawnCentreGap - 1) * Milli

\* math.Abs(y-circleY) > 30
Accepted(f) == Abs(SampleY(f) - circleY * Milli) > spawnCentreGap * Milli

\* the loop "for { y = ...; if accepted { break } }": the index in fs of the
\* sample it leaves with, 0 when fs holds none (the loop would draw on)
RECURSIVE RedrawLoop(_, _)
RedrawLoop(fs, i) ==
    IF i > Len(fs) THEN 0
    ELSE IF Accepted(fs[i]) THEN i
    ELSE RedrawLoop(fs, i + 1)

SpawnPos(d) == fromScreen(SpawnX(d), SampleY(d.fs[RedrawLoop(d.fs, 1)]))

\* CoinR with a fourth large coin
CoinRFourLarge(i) == IF i <= largeCoins THEN largeCoinR ELSE smallCoinR

\* r: lo.If(i < 3, 10.0).Else(7.0)
CoinR(i) == IF i < largeCoins THEN largeCoinR ELSE smallCoinR

\* the six coins of a group: for i := 0; i < 6; i++ { append(&Coin{...}) }
SpawnCoins(d) ==
    [k \in 1..groupCoins |->
        [ticks |-> 0,
         pos   |-> SpawnPos(d),
         mover |-> [delay |-> k * coinDelayStep, delta |-> MoverDelta(SpawnX(d))],
         r     |-> CoinR(k - 1),
         hit   |-> FALSE,
         dev   |-> d.dev]]

SpawnEnemy(d) ==
    [ticks |-> 0,
     pos   |-> SpawnPos(d),
     mover |-> [delay |-> 0, delta |-> MoverDelta(SpawnX(d))],
     r     |-> enemyR,
     dev   |-> d.dev]

\* number of values the spawner takes from the stream in one tick
DrawsUsed(t, d) == IF Spawns(t, d) THEN 2 + RedrawLoop(d.fs, 1) ELSE 1

(* ------------------------------ coin loop ------------------------------- *)

\* Gain with the middle tier ending below radius 7
GainBelowSeven(r) == IF r <= 5 THEN 100 ELSE IF r < 7 THEN 300 ELSE 1000

\* lo.If(c.r <= 5.0, 100).ElseIf(c.r <= 7.0, 300).Else(1000)
Gain(r) == IF r <= 5 THEN 100 ELSE IF r <= 7 THEN 300 ELSE 1000

\* one iteration of "for _, c := range g.coins" with the bob at b: the coin,
\* the effect it appends (none: the empty sequence) and the gain it adds
CoinIter(c, b) ==
    IF Hit(b, c.pos, c.r)
    THEN [coin   |-> [c EXCEPT !.hit = TRUE, !.ticks = c.ticks + 1,
                               !.pos = move(c.mover, c.ticks + 1, c.pos)],
          effect |-> <<[ticks |-> 0, pos |-> c.pos, gain |-> Gain(c.r)]>>,
          gain   |-> Gain(c.r)]
    ELSE [coin   |-> [c EXCEPT !.ticks = c.ticks + 1,
                               !.pos = move(c.mover, c.ticks + 1, c.pos)],
          effect |-> <<>>,
          gain   |-> 0]

RECURSIVE CoinLoop(_, _, _, _, _)
CoinLoop(cs, i, b, effs, sc) ==
    IF i > Len(cs) THEN [coins |-> cs, effects |-> effs, score |-> sc]
    ELSE LET it == CoinIter(cs[i], b)
         IN  CoinLoop([cs EXCEPT ![i] = it.coin], i + 1, b, effs \o it.effect, sc + it.gain)

\* for _, e := range g.coinHitEffects { e.ticks++ }
AgeEffects(effs) == [i \in 1..Len(effs) |-> [effs[i] EXCEPT !.ticks = effs[i].ticks + 1]]

(* ------------------------------ enemy loop ------------------------------ *)

\* EnemyLoop without the break: the scan goes on past an enemy the bob hits
RECURSIVE EnemyLoopNoBreak(_, _, _, _)
EnemyLoopNoBreak(es, i, b, sc) ==
    IF i > Len(es) THEN [enemies |-> es, over |-> FALSE, calls |-> <<>>]
    ELSE LET e == es[i]
             rest == EnemyLoopNoBreak([es EXCEPT ![i] = [e EXCEPT !.ticks = e.ticks + 1,
                                                                  !.pos = move(e.mover, e.ticks + 1, e.pos)]],
                                      i + 1, b, sc)
         IN  IF Hit(b, e.pos, e.r)
             THEN [enemies |-> rest.enemies, over |-> TRUE, calls |-> <<sc>> \o rest.calls]
             ELSE rest

\* "for _, e := range g.enemies": at the first enemy the bob hits the score
\* sc is registered, the mode is set and the loop is left; an enemy before
\* it is aged and moved
RECURSIVE EnemyLoop(_, _, _, _)
EnemyLoop(es, i, b, sc) ==
    IF i > Len(es) THEN [enemies |-> es, over |-> FALSE, calls |-> <<>>]
    ELSE IF Hit(b, es[i].pos, es[i].r)
         THEN [enemies |-> es, over |-> TRUE, calls |-> <<sc>>]
         ELSE LET e == es[i]
              IN  EnemyLoop([es EXCEPT ![i] = [e EXCEPT !.ticks = e.ticks + 1,
                                                        !.pos = move(e.mover, e.ticks + 1, e.pos)]],
                            i + 1, b, sc)

(* -------------------------------- filters ------------------------------- *)

\* v < b and v > b for a float64 screen coordinate whose value is v up to
\* a rounding error of sign dev, far below 1/Milli pixel
Below(v, dev, b) == v < b \/ (v = b /\ dev < 0)

Above(v, dev, b) == v > b \/ (v = b /\ dev > 0)

\* OnScreen with a margin one pixel wider
OnScreenWide(pos, dev) ==
    LET s == toScreen(pos)
    IN  /\ Above(s.x, dev, -(pruneMargin + 1) * Milli)
        /\ Below(s.x, dev, (screenWidth + pruneMargin + 1) * Milli)
        /\ s.y > -(pruneMargin + 1) * Milli
        /\ s.y < (screenHeight + pruneMargin + 1) * Milli

\* x > -100 && x < screenWidth+100 && y > -100 && y < screenHeight+100
OnScreen(pos, dev) ==
    LET s == toScreen(pos)
    IN  /\ Above(s.x, dev, -pruneMargin * Milli)
        /\ Below(s.x, dev, (screenWidth + pruneMargin) * Milli)
        /\ s.y > -pruneMargin * Milli
        /\ s.y < (screenHeight + pruneMargin) * Milli

\* KeepCoin keeping the coins that were hit
KeepCoinHit(c) == OnScreen(c.pos, c.dev)

\* return x > -100 && x < screenWidth+100 && y > -100 && y < screenHeight+100 && !c.hit
KeepCoin(c) == OnScreen(c.pos, c.dev) /\ ~c.hit

\* KeepEffect keeping an effect one tick longer
KeepEffectInclusive(e) == e.ticks <= effectLifetime

\* return e.ticks < 60
KeepEffect(e) == e.ticks < effectLifetime

KeepEnemy(e) == OnScreen(e.pos, e.dev)

\* the indices lo.Filter keeps
RECURSIVE KeptEffects(_, _)
KeptEffects(effs, i) ==
    IF i > Len(effs) THEN <<>>
    ELSE (IF KeepEffect(effs[i]) THEN <<i>> ELSE <<>>) \o KeptEffects(effs, i + 1)

Pick(s, idx) == [k \in 1..Len(idx) |-> s[idx[k]]]

(* ------------------------- Game: mode and reset ------------------------- *)

\* setNextMode leaving the tick counter running
setNextModeKeepsTicks(m) ==
    /\ mode' = m
    /\ ticksFromModeStart' = ticksFromModeStart + 1

\* g.mode = mode; g.ticksFromModeStart = 0
setNextMode(m) ==
    /\ mode' = m
    /\ ticksFromModeStart' = 0

\* the seed initialize gives the stream: the fixed one unless it is 0, else
\* time.Now().Unix()
Seed(fixed, clock) == IF fixed # 0 THEN fixed ELSE clock

\* the stream after initialize has drawn the stars
SeededStream(seed) == [seed |-> seed, pos |-> 3 * starCount]

\* initialize leaving the score of the game that ended
initializeKeepsScore(clock) ==
    /\ random' = SeededStream(Seed(fixedRandomSeed, clock))
    /\ score' = score
    /\ hold' = FALSE
    /\ pendulumX' = 0
    /\ pendulumVx' = 0
    /\ pendulumRotation' = 0
    /\ coins' = <<>>
    /\ coinHitEffects' = <<>>
    /\ enemies' = <<>>
    /\ lastPendulumTicks' = 0
    /\ setNextMode(GameModeTitle)

initialize(clock) ==
    /\ random' = SeededStream(Seed(fixedRandomSeed, clock))
    /\ score' = 0
    /\ hold' = FALSE
    /\ pendulumX' = 0
    /\ pendulumVx' = 0
    /\ pendulumRotation' = 0
    /\ coins' = <<>>
    /\ coinHitEffects' = <<>>
    /\ enemies' = <<>>
    /\ lastPendulumTicks' = 0
    /\ setNextMode(GameModeTitle)

\* os.Getenv("GAME_RAND_SEED") as main reads it: env.set tells whether the
\* variable holds an integer (strconv.Atoi returns no error), env.value
\* which; randomSeed stays 0 when it holds none
randomSeed(env) == IF env.set THEN env.value ELSE 0

\* main: the Game is constructed with the configured seed and initialized
Start(env, clock) ==
    /\ gameRandSeed = env
    /\ fixedRandomSeed = randomSeed(env)
    /\ justTouched = FALSE
    /\ justReleased = FALSE
    /\ random = SeededStream(Seed(randomSeed(env), clock))
    /\ mode = GameModeTitle
    /\ ticksFromModeStart = 0
    /\ score = 0
    /\ hold = FALSE
    /\ pendulumX = 0
    /\ pendulumVx = 0
    /\ pendulumRotation = 0
    /\ coins = <<>>
    /\ coinHitEffects = <<>>
    /\ enemies = <<>>
    /\ lastPendulumTicks = 0
    /\ rankingCalls = <<>>
    /\ effectUpdates = <<>>
    /\ updatesInMode = 0
    /\ pointerDown = FALSE
    /\ sampled = <<>>

(* ----------------------------- Game.Update ------------------------------ *)

\* rankingCalls: the scores this Update passed to RegisterScoreToRankingAsync.
\* effectUpdates[i]: the Update calls completed since the one that created
\* coinHitEffects[i]; updatesInMode: the Update calls completed since the mode
\* last changed; pointerDown: the pointer went down and has not gone up since,
\* by the edges touchContext.Update() sampled; sampled: the values
\* g.random.Float64() gave the spawn loop of this Update, in order (all are
\* history, not read by the program).
History ==
    /\ updatesInMode' = IF mode' = mode THEN updatesInMode + 1 ELSE 0
    /\ pointerDown' = IF justReleased' THEN FALSE ELSE IF justTouched' THEN TRUE ELSE pointerDown

UpdateTitle(jt, jr) ==
    /\ mode = GameModeTitle
    /\ justTouched' = jt
    /\ justReleased' = jr
    /\ IF jt
       THEN /\ pendulumX' = pendulumAmplitude * Milli * Fine
            /\ setNextMode(GameModePlaying)
       ELSE /\ ticksFromModeStart' = ticksFromModeStart + 1
            /\ UNCHANGED <<pendulumX, mode>>
    /\ rankingCalls' = <<>>
    /\ sampled' = <<>>
    /\ effectUpdates' = [i \in 1..Len(effectUpdates) |-> effectUpdates[i] + 1]
    /\ History
    /\ UNCHANGED <<gameRandSeed, fixedRandomSeed, random, score, hold, pendulumVx, pendulumRotation, coins, coinHitEffects, enemies, lastPendulumTicks>>

UpdatePlaying(jt, jr, d) ==
    /\ mode = GameModePlaying
    /\ Spawns(ticksFromModeStart + 1, d) => RedrawLoop(d.fs, 1) > 0
    /\ LET t    == ticksFromModeStart + 1
           h    == NextHold(hold, jt, jr)
           due  == ResetDue(t, lastPendulumTicks)
           sp   == Spawns(t, d)
       IN  \* each value is computed once and bound
           \E rot \in {Rotate(pendulumRotation, h)} :
           \E vx \in {IF due THEN 0 ELSE SwingVx(pendulumX, pendulumVx)} :
           \E px \in {IF due THEN pendulumAmplitude * Milli * Fine ELSE SwingX(pendulumX, pendulumVx)} :
           \E cs0 \in {IF sp THEN coins \o SpawnCoins(d) ELSE coins} :
           \E es0 \in {IF sp THEN Append(enemies, SpawnEnemy(d)) ELSE enemies} :
           \E b \in {Bob(px, rot)} :
           \E cl \in {CoinLoop(cs0, 1, b, coinHitEffects, score)} :
           \E fx \in {AgeEffects(cl.effects)} :
           \E seen \in {[i \in 1..Len(fx) |-> IF i <= Len(effectUpdates) THEN effectUpdates[i] + 1 ELSE 0]} :
           \E el \in {EnemyLoop(es0, 1, b, cl.score)} :
           \E kept \in {KeptEffects(fx, 1)} :
           /\ justTouched' = jt
           /\ justReleased' = jr
           /\ hold' = h
           /\ pendulumRotation' = rot
           /\ pendulumVx' = vx
           /\ pendulumX' = px
           /\ lastPendulumTicks' = IF due THEN t ELSE lastPendulumTicks
           /\ random' = [random EXCEPT !.pos = random.pos + DrawsUsed(t, d)]
           /\ score' = cl.score
           /\ IF el.over
              THEN setNextMode(GameModeGameOver)
              ELSE /\ ticksFromModeStart' = t
                   /\ mode' = mode
           /\ rankingCalls' = el.calls
           /\ sampled' = IF sp THEN SubSeq(d.fs, 1, RedrawLoop(d.fs, 1)) ELSE <<>>
           /\ coins' = SelectSeq(cl.coins, KeepCoin)
           /\ coinHitEffects' = Pick(fx, kept)
           /\ effectUpdates' = Pick(seen, kept)
           /\ enemies' = SelectSeq(el.enemies, KeepEnemy)
           /\ History
           /\ UNCHANGED <<gameRandSeed, fixedRandomSeed>>

\* ResetPressed returning to the title once the delay is over, pressed or not
ResetPressedUnpressed(t, jt) == t > gameOverDelay

\* ResetPressed with the delay one tick short
ResetPressedEarly(t, jt) == t >= gameOverDelay /\ jt

\* g.ticksFromModeStart > 60 && g.touchContext.IsJustTouched(), t the tick
\* counter after its increment
ResetPressed(t, jt) == t > gameOverDelay /\ jt

\* UpdateGameOver ageing the effects while it waits for the reset
UpdateGameOverAging(jt, jr, clock) ==
    /\ mode = GameModeGameOver
    /\ justTouched' = jt
    /\ justReleased' = jr
    /\ rankingCalls' = <<>>
    /\ sampled' = <<>>
    /\ IF ResetPressed(ticksFromModeStart + 1, jt)
       THEN /\ initialize(clock)
            /\ effectUpdates' = <<>>
       ELSE /\ ticksFromModeStart' = ticksFromModeStart + 1
            /\ effectUpdates' = [i \in 1..Len(effectUpdates) |-> effectUpdates[i] + 1]
            /\ coinHitEffects' = AgeEffects(coinHitEffects)
            /\ UNCHANGED <<random, mode, score, hold, pendulumX, pendulumVx, pendulumRotation, coins, enemies, lastPendulumTicks>>
    /\ History
    /\ UNCHANGED <<gameRandSeed, fixedRandomSeed>>

\* case GameModeGameOver: if g.ticksFromModeStart > 60 && IsJustTouched() { g.initialize() }
UpdateGameOver(jt, jr, clock) ==
    /\ mode = GameModeGameOver
    /\ justTouched' = jt
    /\ justReleased' = jr
    /\ rankingCalls' = <<>>
    /\ sampled' = <<>>
    /\ IF ResetPressed(ticksFromModeStart + 1, jt)
       THEN /\ initialize(clock)
            /\ effectUpdates' = <<>>
       ELSE /\ ticksFromModeStart' = ticksFromModeStart + 1
            /\ effectUpdates' = [i \in 1..Len(effectUpdates) |-> effectUpdates[i] + 1]
            /\ UNCHANGED <<random, mode, score, hold, pendulumX, pendulumVx, pendulumRotation, coins, coinHitEffects, enemies, lastPendulumTicks>>
    /\ History
    /\ UNCHANGED <<gameRandSeed, fixedRandomSeed>>

\* one call of Game.Update with the pointer edges jt, jr, the draw d and the
\* wall clock
Update(jt, jr, d, clock) ==
    \/ UpdateTitle(jt, jr)
    \/ UpdatePlaying(jt, jr, d)
    \/ UpdateGameOver(jt, jr, clock)

(* ----------------------------- environments ----------------------------- *)

\* bounds of the explored runs
MaxTitleTicks == 2
MaxPlayTicks == 340
MaxReplayTicks == 3
MaxOverTicks == 62
MaxSpawnTick == 2
LateSpawnTick == 187
MaxLongTicks == 1700
InputEvery == 240
MaxSamples == 3
MaxMoveTicks == 125

\* settings of GAME_RAND_SEED (unset, or an integer) and the wall clock of
\* later resets
NoSeed == [set |-> FALSE, value |-> 0]
SeedSettings == {NoSeed, [set |-> TRUE, value |-> 7]}
AllSeedSettings == SeedSettings \cup {[set |-> TRUE, value |-> 0], [set |-> TRUE, value |-> -3]}
LaterClocks == {1005}

\* draws: Miss spawns nothing; a hit spawns on the left (even side value) or
\* on the right, with the first height sample accepted or redrawn once.
\* d.dev is not drawn from the stream: it is the sign of the rounding error
\* that the round trips through (r, theta) leave on the screen x of the
\* group's entities (a function of the height, the same for the seven),
\* which decides the comparison when x reaches a bound of the filter.
Miss == [n |-> 1, side |-> 0, fs |-> <<>>, dev |-> 0]
Hits ==
    {[n |-> 360, side |-> 4, fs |-> <<300>>, dev |-> 0],
     [n |-> 360, side |-> 4, fs |-> <<450, 300>>, dev |-> 0],
     [n |-> 0, side |-> 7, fs |-> <<300>>, dev |-> 0]}
Draws == {Miss} \cup Hits
Roundings == {-1, 0, 1}
RoundedDraws == {Miss} \cup {[h EXCEPT !.dev = e] : h \in Hits, e \in Roundings}

\* ticks of a play at which the pointer may go down, and up
PressTicks == {1}
ReleaseTicks == {35, 55, 227}

\* Whole games: a short wait on the title, plays of at most MaxPlayTicks
\* ticks (MaxReplayTicks once the stream was seeded by a later clock) with
\* spawns in their first MaxSpawnTick ticks and one on the right at
\* LateSpawnTick, game-over screens of at most MaxOverTicks ticks, any
\* number of games.
EnvGame(jt, jr, d) ==
    LET t == ticksFromModeStart + 1
    IN  /\ mode = GameModeTitle => (jt \/ t <= MaxTitleTicks) /\ d = Miss
        /\ mode = GameModePlaying =>
              /\ t <= (IF random.seed \in LaterClocks THEN MaxReplayTicks ELSE MaxPlayTicks)
              /\ jt => t \in PressTicks
              /\ jr => t \in ReleaseTicks
              /\ d # Miss => t <= MaxSpawnTick \/ (t = LateSpawnTick /\ d.side % 2 = 1)
        /\ mode = GameModeGameOver => (jt \/ t <= MaxOverTicks) /\ d = Miss

Init == \E env \in SeedSettings : Start(env, 1000)

Next ==
    \E jt, jr \in BOOLEAN : \E d \in Draws : \E clock \in LaterClocks :
        EnvGame(jt, jr, d) /\ Update(jt, jr, d, clock)

Spec == Init /\ [][Next]_vars

\* Long plays: the pointer may go down or up every InputEvery ticks, and one
\* group may spawn after the first InputEvery ticks; a play that ends is
\* followed by another; the rounding of the group's screen x may fall on
\* either side.
EnvLong(jt, jr, d) ==
    LET t == ticksFromModeStart + 1
    IN  /\ mode = GameModeTitle => jt /\ ~jr /\ d = Miss
        /\ mode = GameModePlaying =>
              /\ t <= MaxLongTicks
              /\ (jt \/ jr) => t % InputEvery = 1
              /\ d # Miss => t = InputEvery + 1
        /\ mode = GameModeGameOver => (jt \/ t <= MaxOverTicks) /\ ~jr /\ d = Miss

NextLong ==
    \E jt, jr \in BOOLEAN : \E d \in RoundedDraws :
        EnvLong(jt, jr, d) /\ Update(jt, jr, d, 0)

SpecLong == Start([set |-> TRUE, value |-> 7], 0) /\ [][NextLong]_vars

\* Games under every setting of the seed: one group may spawn on the left in
\* the first tick of a play.
EnvSeed(jt, jr, d) ==
    LET t == ticksFromModeStart + 1
    IN  /\ mode = GameModeTitle => jt /\ ~jr /\ d = Miss
        /\ mode = GameModePlaying =>
              /\ t <= MaxPlayTicks
              /\ jt => t \in PressTicks
              /\ jr => t \in ReleaseTicks
              /\ d # Miss => t = 1 /\ d.side % 2 = 0 /\ Len(d.fs) = 1
        /\ mode = GameModeGameOver => (jt \/ t <= MaxOverTicks) /\ ~jr /\ d = Miss

InitSeed == \E env \in AllSeedSettings : Start(env, 1000)

NextSeed ==
    \E jt, jr \in BOOLEAN : \E d \in Draws : \E clock \in LaterClocks :
        EnvSeed(jt, jr, d) /\ Update(jt, jr, d, clock)

SpecSeed == InitSeed /\ [][NextSeed]_vars

\* height samples, in thousandths: the ends of the range and both sides of
\* the two ends of the rejected band
Samples == {0, 150, 303, 304, 394, 484, 485, 700, 999}

\* the sample sequences of at most MaxSamples values on which the redraw
\* loop ends with the last
SampleRuns ==
    {fs \in UNION {[1..n -> Samples] : n \in 1..MaxSamples} : RedrawLoop(fs, 1) = Len(fs)}

SpawnDraws ==
    {[n |-> 360, side |-> sd, fs |-> fs, dev |-> 0] : sd \in {4, 7}, fs \in SampleRuns}

\* The start of a play without input: one group may spawn in its first
\* tick, at any of the heights and on either side, and moves for
\* MaxMoveTicks ticks.
EnvSpawn(jt, jr, d) ==
    LET t == ticksFromModeStart + 1
    IN  /\ ~jr
        /\ mode = GameModeTitle => jt /\ d = Miss
        /\ mode = GameModePlaying =>
              /\ ~jt
              /\ t <= MaxMoveTicks
              /\ d # Miss => t = 1

NextSpawn ==
    \E jt, jr \in BOOLEAN : \E d \in {Miss} \cup SpawnDraws :
        EnvSpawn(jt, jr, d) /\ Update(jt, jr, d, 0)

SpecSpawn == Start(NoSeed, 1000) /\ [][NextSpawn]_vars

(* ------------------------------ properties ------------------------------ *)

\* the bob after this Update's swing and rotation
BobAfter == Bob(pendulumX', pendulumRotation')

\* the bob of the current state
BobNow == Bob(pendulumX, pendulumRotation)

\* this Update's enemy scan meets an enemy the bob overlaps: every enemy
\* is tested where the previous Update left it
EnemyStruck == \E i \in 1..Len(enemies) : Hit(BobAfter, enemies[i].pos, enemies[i].r)

\* the fields initialize resets are left as they are
Unreset == UNCHANGED <<random, score, hold, pendulumX, pendulumVx, pendulumRotation, coins, coinHitEffects, enemies, lastPendulumTicks>>

\* C1: the mode changes only from Title to Playing in an Update that sees a
\* press, from Playing to GameOver in an Update whose scan meets an enemy
\* the bob overlaps, and from GameOver to Title in an Update that sees a
\* press.
C1_ModeEdges ==
    [][mode' # mode =>
          \/ mode = GameModeTitle /\ mode' = GameModePlaying /\ justTouched'
          \/ mode = GameModePlaying /\ mode' = GameModeGameOver /\ EnemyStruck
          \/ mode = GameModeGameOver /\ mode' = GameModeTitle /\ justTouched']_vars

\* a title screen reached by a press on a game-over screen, itself reached
\* from a play: all three edges were taken
C1_Witness == mode = GameModeTitle /\ justTouched /\ updatesInMode = 0

\* C3: in GameOver the first gameOverDelay Update calls leave the mode and
\* every field initialize resets as they are, press or no press; a later
\* Update that sees a press returns to Title, and one that sees none stays.
C3_GameOverDelay ==
    [][mode = GameModeGameOver =>
          /\ updatesInMode + 1 <= gameOverDelay => mode' = GameModeGameOver /\ Unreset
          /\ updatesInMode + 1 > gameOverDelay /\ justTouched' => mode' = GameModeTitle
          /\ ~justTouched' => mode' = GameModeGameOver /\ Unreset]_vars

\* the 60th Update of a game-over screen saw a press and ignored it
C3_Witness ==
    /\ mode = GameModeGameOver
    /\ justTouched
    /\ updatesInMode = gameOverDelay
    /\ enemies # <<>>

\* C4: on the title screen the score is 0, there is no coin, enemy or
\* effect, the pendulum is at rest at 0 with rotation 0, hold is false and
\* lastPendulumTicks is 0; a play starts, right after the press on the
\* title, with score 0, the bob at the amplitude and at rest, rotation 0 and
\* no entity.
C4_FreshTitle ==
    /\ mode = GameModeTitle =>
          /\ score = 0
          /\ coins = <<>> /\ enemies = <<>> /\ coinHitEffects = <<>>
          /\ pendulumX = 0 /\ pendulumVx = 0 /\ pendulumRotation = 0
          /\ ~hold
          /\ lastPendulumTicks = 0
    /\ mode = GameModePlaying /\ updatesInMode = 0 =>
          /\ score = 0
          /\ pendulumX = pendulumAmplitude * Milli * Fine
          /\ pendulumVx = 0 /\ pendulumRotation = 0
          /\ coins = <<>> /\ enemies = <<>> /\ coinHitEffects = <<>>

\* a play starts after an earlier game: the stream was seeded again, by a
\* reset
C4_Witness ==
    /\ mode = GameModePlaying
    /\ updatesInMode = 0
    /\ random.seed \in LaterClocks

\* the first enemy of the scan the bob overlaps (when EnemyStruck)
FirstStruck ==
    CHOOSE i \in 1..Len(enemies) :
        /\ Hit(BobAfter, enemies[i].pos, enemies[i].r)
        /\ \A k \in 1..(i - 1) : ~Hit(BobAfter, enemies[k].pos, enemies[k].r)

\* this Update spawned a group: the stream gave more than the one value of
\* the spawn test
SpawnedNow == random'.pos - random.pos > 1

\* the scan stopped at FirstStruck: that enemy and those after it are as
\* they were, neither aged nor moved, and those before it are aged (the
\* filter drops enemies from the front, a spawn adds one at the end)
ScanStopped ==
    LET shift == Len(enemies') - Len(enemies) - (IF SpawnedNow THEN 1 ELSE 0)
    IN  /\ \A i \in FirstStruck..Len(enemies) : enemies'[i + shift] = enemies[i]
        /\ \A i \in 1..(FirstStruck - 1) :
              i + shift >= 1 => enemies'[i + shift].ticks = enemies[i].ticks + 1

\* C2: a Playing Update whose scan meets an enemy the bob overlaps ends in
\* GameOver, with the scan stopped at the first such enemy and the score
\* registered exactly once, with the score of the end of that Update; no
\* other Update registers a score; the score does not change in GameOver.
C2_GameOverOnce ==
    [][/\ mode = GameModePlaying /\ EnemyStruck =>
             /\ mode' = GameModeGameOver
             /\ ScanStopped
             /\ rankingCalls' = <<score'>>
       /\ ~(mode = GameModePlaying /\ mode' = GameModeGameOver) => rankingCalls' = <<>>
       /\ mode = GameModeGameOver /\ mode' = GameModeGameOver => score' = score]_vars

\* a game just ended with two enemies overlapping the bob and a coin
\* collected in the same Update: one registration, of the score with that coin
C2_Witness ==
    /\ mode = GameModeGameOver
    /\ updatesInMode = 0
    /\ rankingCalls = <<score>>
    /\ score > 0
    /\ \E i, k \in 1..Len(enemies) :
          /\ i < k
          /\ Hit(BobNow, enemies[i].pos, enemies[i].r)
          /\ Hit(BobNow, enemies[k].pos, enemies[k].r)
    /\ \E i \in 1..Len(coinHitEffects) : coinHitEffects[i].ticks = 1

\* C5: a Playing Update whose tick t, counted after the increment, has
\* (t - lastPendulumTicks) a multiple of resetPeriod sets the velocity to 0,
\* the displacement to the amplitude and lastPendulumTicks to t, and the
\* enemy scan of that Update tests the bob so reset; any other Playing
\* Update swings the pendulum and leaves lastPendulumTicks; so the resets of
\* a play are at its ticks 480, 960, ...: after its n-th Update
\* lastPendulumTicks is the last multiple of resetPeriod up to n.
C5_PendulumReset ==
    [][mode = GameModePlaying =>
          LET t == ticksFromModeStart + 1
          IN  /\ (t - lastPendulumTicks) % resetPeriod = 0 =>
                    /\ pendulumVx' = 0
                    /\ pendulumX' = pendulumAmplitude * Milli * Fine
                    /\ lastPendulumTicks' = t
              /\ (t - lastPendulumTicks) % resetPeriod # 0 =>
                    /\ pendulumVx' = SwingVx(pendulumX, pendulumVx)
                    /\ pendulumX' = pendulumX + pendulumVx'
                    /\ lastPendulumTicks' = lastPendulumTicks
              /\ (mode' = GameModeGameOver) = EnemyStruck
              /\ lastPendulumTicks' = resetPeriod * ((updatesInMode + 1) \div resetPeriod)]_vars

\* the third reset of a play has just happened
C5_Witness ==
    /\ mode = GameModePlaying
    /\ updatesInMode = 3 * resetPeriod
    /\ lastPendulumTicks = 3 * resetPeriod
    /\ pendulumVx = 0
    /\ pendulumX = pendulumAmplitude * Milli * Fine

\* C6: the rotation angle is at least 0 and less than a full turn, in every
\* state.
C6_RotationRange == 0 <= pendulumRotation /\ pendulumRotation < TwoPi

\* the pointer was held long enough for a full turn, and the angle has
\* wrapped: it is within one step of 0 again
C6_Witness ==
    /\ mode = GameModePlaying
    /\ hold
    /\ updatesInMode >= 2 * HalfTurnSteps
    /\ pendulumRotation > 0
    /\ pendulumRotation < RotStep

\* the coins of the next state this Update appended: a coin is aged once by
\* every Update from the one that appends it on
NewCoins == {i \in 1..Len(coins') : coins'[i].ticks = 1}

\* the enemies of the next state this Update appended: the scan ages an
\* enemy once per Update unless it stopped before it
NewEnemies ==
    {i \in 1..Len(enemies') :
        enemies'[i].ticks = (IF mode' = GameModeGameOver THEN 0 ELSE 1)}

\* C7: an Update outside Playing appends no coin and no enemy; a Playing
\* Update appends nothing or one group; a group is 6 coins and 1 enemy at
\* the end of the collections: coin i of 0..5 has delay (i+1)*20, radius 10
\* for i < 3 and 7 otherwise, age 0 before the loops of the same Update age
\* it once, and hit false; the enemy has delay 0, radius 10 and age 0 (1
\* once the scan has aged and moved it); the seven have one spawn position
\* and one mover delta.
C7_SpawnGroup ==
    [][/\ mode # GameModePlaying =>
              /\ coins' = coins \/ coins' = <<>>
              /\ enemies' = enemies \/ enemies' = <<>>
       /\ mode = GameModePlaying /\ ~SpawnedNow =>
              /\ NewCoins = {} /\ NewEnemies = {}
              /\ Len(coins') <= Len(coins) /\ Len(enemies') <= Len(enemies)
       /\ mode = GameModePlaying /\ SpawnedNow =>
              LET n == Len(coins')
                  m == Len(enemies')
              IN  /\ n >= groupCoins /\ n <= Len(coins) + groupCoins
                  /\ m >= 1 /\ m <= Len(enemies) + 1
                  /\ NewCoins = (n - groupCoins + 1)..n
                  /\ NewEnemies = {m}
                  /\ \A i \in 0..(groupCoins - 1) :
                        LET c == coins'[n - groupCoins + 1 + i]
                        IN  /\ c.mover.delay = (i + 1) * coinDelayStep
                            /\ c.r = (IF i < largeCoins THEN largeCoinR ELSE smallCoinR)
                            /\ ~c.hit
                            /\ c.pos = coins'[n].pos
                            /\ c.mover.delta = enemies'[m].mover.delta
                  /\ enemies'[m].mover.delay = 0
                  /\ enemies'[m].r = enemyR
                  /\ enemies'[m].pos =
                        IF enemies'[m].ticks = 0 THEN coins'[n].pos
                        ELSE move(enemies'[m].mover, 1, coins'[n].pos)]_vars

\* a second group has just been appended, at another position than the
\* first
C7_Witness ==
    /\ mode = GameModePlaying
    /\ Len(coins) = 2 * groupCoins
    /\ coins[2 * groupCoins].ticks = 1
    /\ coins[groupCoins].ticks = 2
    /\ coins[2 * groupCoins].pos # coins[groupCoins].pos
    /\ Len(enemies) = 2
    /\ enemies[2].ticks = 1

\* the coins this Update's coin loop finds under the bob: every coin is
\* tested where the previous Update left it (a coin appended by this Update
\* is at the spawn position, off the screen)
StruckCoins == {i \in 1..Len(coins) : Hit(BobAfter, coins[i].pos, coins[i].r)}

\* the effects of the next state this Update created: an effect is aged
\* once by every Playing Update from the one that creates it on
NewEffects == {k \in 1..Len(coinHitEffects') : coinHitEffects'[k].ticks = 1}

\* C8: a Playing Update adds to the score 1000 for every coin of radius 10
\* its coin loop finds under the bob and 300 for every such coin of radius
\* 7, and nothing else; it creates one effect per such coin, in the order of
\* the coins, with that gain and at the position the coin had when it was
\* tested; outside Playing the score changes only by the reset to 0; so the
\* score is always 300a + 1000b, every effect carries 300 or 1000, and no
\* coin has another radius than 7 or 10.
C8_ScoreGain ==
    [][/\ mode = GameModePlaying =>
              \E struck \in {StruckCoins} :
              LET larges == {i \in struck : coins[i].r = largeCoinR}
                  smalls == {i \in struck : coins[i].r = smallCoinR}
                  first  == Len(coinHitEffects') - Cardinality(struck)
              IN  /\ score' - score = 1000 * Cardinality(larges) + 300 * Cardinality(smalls)
                  /\ first >= 0
                  /\ NewEffects = (first + 1)..Len(coinHitEffects')
                  /\ \A i \in struck :
                        LET e == coinHitEffects'[first + Cardinality({j \in struck : j <= i})]
                        IN  /\ e.gain = (IF coins[i].r = largeCoinR THEN 1000 ELSE 300)
                            /\ e.pos = coins[i].pos
       /\ mode # GameModePlaying =>
              \/ score' = score /\ coinHitEffects' = coinHitEffects
              \/ mode' = GameModeTitle /\ score' = 0 /\ coinHitEffects' = <<>>
       /\ \E a, b \in 0..(3 * groupCoins) : score' = 300 * a + 1000 * b
       /\ \A k \in 1..Len(coinHitEffects') : coinHitEffects'[k].gain \in {300, 1000}
       /\ \A i \in 1..Len(coins') : coins'[i].r \in {smallCoinR, largeCoinR}]_vars

\* one Update has just collected two coins, and coins of both radii have
\* been collected within the last effectLifetime ticks
C8_Witness ==
    /\ mode = GameModePlaying
    /\ \E i, j \in 1..Len(coinHitEffects) :
          /\ i < j
          /\ coinHitEffects[i].ticks = 1
          /\ coinHitEffects[j].ticks = 1
    /\ \E k, l \in 1..Len(coinHitEffects) :
          /\ coinHitEffects[k].gain = 300
          /\ coinHitEffects[l].gain = 1000
    /\ score >= 2 * 1000 + 2 * 300

\* the Playing Updates an effect has been through since the one that
\* created it: the Updates in GameOver come after them
PlayingUpdatesSince(i) ==
    effectUpdates[i] - (IF mode = GameModeGameOver THEN updatesInMode ELSE 0)

\* C10 as stated: an effect leaves the collection at most effectLifetime
\* Update calls after the one that created it, and no effect of the
\* collection has an age of effectLifetime or more.
C10_RemovedWithin60Updates ==
    \A i \in 1..Len(coinHitEffects) :
        /\ effectUpdates[i] < effectLifetime
        /\ coinHitEffects[i].ticks < effectLifetime

\* C10 amended: an effect leaves the collection at most effectLifetime
\* Playing Updates after the one that created it (an Update in GameOver
\* neither ages nor removes it), its age is one more than the number of
\* those Updates, and no effect of the collection has an age of
\* effectLifetime or more.
C10_RemovedWithin60PlayingUpdates ==
    \A i \in 1..Len(coinHitEffects) :
        /\ PlayingUpdatesSince(i) < effectLifetime
        /\ coinHitEffects[i].ticks = PlayingUpdatesSince(i) + 1
        /\ coinHitEffects[i].ticks < effectLifetime

\* an effect in its last Update before removal, beside one created later
C10_Witness ==
    /\ mode = GameModePlaying
    /\ Len(coinHitEffects) >= 2
    /\ coinHitEffects[1].ticks = effectLifetime - 1
    /\ effectUpdates[1] = effectLifetime - 2

\* C11: at the end of an Update that changed the mode ticksFromModeStart is
\* 0, and at the end of any other Update it is one more than before; so it
\* counts the Updates since the mode last changed, and the first Update in
\* a new mode sees 1 after its increment.
C11_TicksPerMode ==
    [][/\ mode' # mode => ticksFromModeStart' = 0
       /\ mode' = mode => ticksFromModeStart' = ticksFromModeStart + 1
       /\ ticksFromModeStart' = updatesInMode']_vars

\* the second Update of a title screen reached by a reset: the counter was
\* set to 0 by each of the three mode changes and is now 2
C11_Witness ==
    /\ mode = GameModeTitle
    /\ random.seed \in LaterClocks
    /\ ticksFromModeStart = 2

\* C12: when GAME_RAND_SEED holds an integer, whichever, the stream is
\* seeded with it by every initialization, the first and those of the
\* resets; the wall clock seeds the stream only when it holds none.
C12_SeedOverride ==
    /\ gameRandSeed.set => random.seed = gameRandSeed.value
    /\ ~gameRandSeed.set => random.seed \in {1000} \cup LaterClocks

\* C13: a Playing Update in which the player is holding (the pointer went
\* down, on the title screen or during the play, and has not gone up since)
\* adds pi/800 to the rotation and wraps it; a Playing Update in which the
\* player is not holding, and an Update of Title or GameOver that does not
\* reset the game, leave the rotation as it is.
C13_RotationWhileHolding ==
    [][/\ mode = GameModePlaying /\ pointerDown' =>
              pendulumRotation' =
                  IF pendulumRotation + RotStep > TwoPi
                  THEN pendulumRotation + RotStep - TwoPi
                  ELSE pendulumRotation + RotStep
       /\ mode = GameModePlaying /\ ~pointerDown' => pendulumRotation' = pendulumRotation
       /\ mode # GameModePlaying /\ ~(mode = GameModeGameOver /\ mode' = GameModeTitle) =>
              pendulumRotation' = pendulumRotation]_vars

\* a position within [-100, width+100] x [-100, height+100], bounds included
InClosedRange(pos, dev) ==
    LET s == toScreen(pos)
    IN  /\ ~Below(s.x, dev, -pruneMargin * Milli)
        /\ ~Above(s.x, dev, (screenWidth + pruneMargin) * Milli)
        /\ s.y >= -pruneMargin * Milli
        /\ s.y <= (screenHeight + pruneMargin) * Milli

CoinInClosedRange(c) == InClosedRange(c.pos, c.dev) /\ ~c.hit

EnemyInClosedRange(e) == InClosedRange(e.pos, e.dev)

\* the coins of the current state as this Update's coin loop leaves them
CoinsAfterLoop ==
    [i \in 1..Len(coins) |->
        [coins[i] EXCEPT !.ticks = @ + 1,
                         !.pos = move(coins[i].mover, coins[i].ticks + 1, coins[i].pos),
                         !.hit = Hit(BobAfter, coins[i].pos, coins[i].r)]]

\* the enemies of the current state as this Update's scan leaves them
EnemiesAfterLoop ==
    [i \in 1..Len(enemies) |->
        IF EnemyStruck /\ i >= FirstStruck THEN enemies[i]
        ELSE [enemies[i] EXCEPT !.ticks = @ + 1,
                                !.pos = move(enemies[i].mover, enemies[i].ticks + 1, enemies[i].pos)]]

\* the numbers of coins and enemies this Update appended
SpawnedCoins == IF SpawnedNow THEN groupCoins ELSE 0

SpawnedEnemies == IF SpawnedNow THEN 1 ELSE 0

\* C14: at the end of a Playing Update a coin is in the collection if and
\* only if its screen position is within [-100, width+100] x
\* [-100, height+100], bounds included, and it is not hit, and an enemy if
\* and only if its screen position is within that range (the entities this
\* Update appended come after them).
C14_PruningClosedBounds ==
    [][mode = GameModePlaying =>
          /\ SubSeq(coins', 1, Len(coins') - SpawnedCoins)
                = SelectSeq(CoinsAfterLoop, CoinInClosedRange)
          /\ SubSeq(enemies', 1, Len(enemies') - SpawnedEnemies)
                = SelectSeq(EnemiesAfterLoop, EnemyInClosedRange)]_vars

\* C15: a Playing Update, the one that ends the game included, ages every
\* coin, every enemy and every effect of the collections by exactly 1 and
\* applies the Mover of every coin and enemy once, before the filters: what
\* the filters receive is every coin and enemy aged and moved, and the
\* effects they keep are the earlier ones aged by 1.
C15_EveryEntityAged ==
    [][mode = GameModePlaying =>
          /\ SubSeq(coins', 1, Len(coins') - SpawnedCoins)
                = SelectSeq(CoinsAfterLoop, KeepCoin)
          /\ SubSeq(enemies', 1, Len(enemies') - SpawnedEnemies)
                = SelectSeq([i \in 1..Len(enemies) |->
                                [enemies[i] EXCEPT !.ticks = @ + 1,
                                                   !.pos = move(enemies[i].mover, enemies[i].ticks + 1, enemies[i].pos)]],
                            KeepEnemy)
          /\ SubSeq(coinHitEffects', 1, Len(coinHitEffects') - Cardinality(StruckCoins))
                = SelectSeq([i \in 1..Len(coinHitEffects) |->
                                [coinHitEffects[i] EXCEPT !.ticks = @ + 1]],
                            KeepEffect)]_vars

\* the screen x an entity of age t with Mover m has: where it was spawned,
\* moved by delta once per tick of its age past the delay
ScreenXAtAge(m, t) ==
    (IF m.delta > 0 THEN -spawnMargin ELSE screenWidth + spawnMargin) * Milli
        + (IF t > m.delay THEN (t - m.delay) * m.delta * Milli ELSE 0)

SpawnY == (screenHeight - spawnBandCut) * sampled'[Len(sampled')] + spawnBandBase * Milli

C18_CoinScoresOnce ==
    [][/\ \A j \in 1..Len(coins') : ~coins'[j].hit
       /\ mode = GameModePlaying =>
              \E struck \in {StruckCoins} :
              LET old == Len(coins') - SpawnedCoins
                  left == {i \in 1..Len(coins) : i \notin struck}
              IN  /\ old <= Cardinality(left)
                  /\ \E first \in 0..Len(coins) :
                        \A j \in 1..old :
                            \E i \in left :
                                /\ i >= first + j
                                /\ coins'[j].ticks = coins[i].ticks + 1
                                /\ coins'[j].mover = coins[i].mover
                                /\ coins'[j].r = coins[i].r
                                /\ toScreen(coins'[j].pos).y = toScreen(coins[i].pos).y
                  /\ Cardinality(NewEffects) = Cardinality(struck)
                  /\ Len(coinHitEffects') <= Len(coinHitEffects) + Cardinality(struck)
                  /\ score' - score <= 1000 * Cardinality(struck)
                  /\ score' - score >= 300 * Cardinality(struck)
       /\ score' >= score \/ (mode = GameModeGameOver /\ mode' = GameModeTitle /\ score' = 0)]_vars

\* an Update has just collected the first coins of two groups at once:
\* the two are gone, the sixteen left of three groups are not marked
C18_Witness ==
    /\ mode = GameModePlaying
    /\ Len(enemies) = 3
    /\ Len(coins) = 3 * groupCoins - 2
    /\ \A j \in 1..Len(coins) : ~coins[j].hit
    /\ Len(coinHitEffects) = 2
    /\ coinHitEffects[1].ticks = 1
    /\ coinHitEffects[2].ticks = 1
    /\ score = 2000

\* C19: an Update in Title that does not start the game and an Update in
\* GameOver that does not reset leave the score, hold, the pendulum's
\* position, velocity and rotation, lastPendulumTicks, the random stream and
\* the coins, enemies and effects, with their ages and positions, as they
\* were, and add 1 to the per-mode tick counter; an Update outside Playing
\* that does change the mode creates no coin, enemy or effect either.
C19_FrozenOutsidePlaying ==
    [][/\ mode # GameModePlaying /\ mode' = mode =>
              /\ UNCHANGED <<score, hold, pendulumX, pendulumVx, pendulumRotation, lastPendulumTicks>>
              /\ UNCHANGED <<random, coins, enemies, coinHitEffects>>
              /\ ticksFromModeStart' = ticksFromModeStart + 1
       /\ mode # GameModePlaying /\ mode' # mode =>
              /\ Len(coins') <= Len(coins) /\ \A i \in 1..Len(coins') : coins'[i] = coins[i]
              /\ Len(enemies') <= Len(enemies) /\ \A i \in 1..Len(enemies') : enemies'[i] = enemies[i]
              /\ Len(coinHitEffects') <= Len(coinHitEffects)
              /\ \A i \in 1..Len(coinHitEffects') : coinHitEffects'[i] = coinHitEffects[i]]_vars

\* the game has been over for more than 60 Updates, the last with the
\* pointer pressed too early to reset or not pressed: the score, the turned
\* pendulum, the coins, the enemies and an effect are still there
C19_Witness ==
    /\ mode = GameModeGameOver
    /\ ticksFromModeStart > gameOverDelay
    /\ score > 0
    /\ pendulumRotation > 0
    /\ pendulumX # 0
    /\ coins # <<>>
    /\ enemies # <<>>
    /\ coinHitEffects # <<>>
    /\ coinHitEffects[1].ticks = 1

\* every coin and enemy a Playing Update keeps, but for a group it appended,
\* is one it had, one tick older
AgedByOne ==
    /\ \A j \in 1..(Len(coins') - SpawnedCoins) :
          \E i \in 1..Len(coins) :
              coins'[j].ticks = coins[i].ticks + 1 /\ coins'[j].mover = coins[i].mover
    /\ \A j \in 1..(Len(enemies') - SpawnedEnemies) :
          \E i \in 1..Len(enemies) : enemies'[j].ticks = enemies[i].ticks + 1

\* C20 as stated: an enemy is pruned within 790 ticks of its spawn and a
\* coin within 790 + delay, so that no Update ends with an enemy of age 790
\* or a coin of age 790 + delay in the collections.
C20_PrunedWithin790 ==
    /\ \A i \in 1..Len(enemies) : enemies[i].ticks < 790
    /\ \A i \in 1..Len(coins) : coins[i].ticks < 790 + coins[i].mover.delay

\* C20, amended: while the game stays in Playing every Update ages every
\* coin and enemy it keeps by one, and no Update ends with an enemy of age
\* 791 or a coin of age 791 + delay in the collections: an enemy is pruned
\* within 791 ticks of its spawn and a coin within 791 + delay.
C20_PrunedWithin791 ==
    [][/\ mode = GameModePlaying /\ mode' = GameModePlaying => AgedByOne
       /\ \A i \in 1..Len(enemies') : enemies'[i].ticks < 791
       /\ \A i \in 1..Len(coins') : coins'[i].ticks < 791 + coins'[i].mover.delay]_vars

\* an enemy that came from the left is still there at age 790, its screen x
\* a rounding error short of 740
C20_Witness ==
    /\ mode = GameModePlaying
    /\ enemies # <<>>
    /\ enemies[1].ticks = 790
    /\ enemies[1].mover.delta = 1
    /\ toScreen(enemies[1].pos).x = (screenWidth + pruneMargin) * Milli
    /\ enemies[1].dev < 0
    /\ Len(coins) = groupCoins

====
